---- MODULE Spec2Model ----
(***************************************************************************)
(* Model of the synthetic playback-event generator of                      *)
(* events/simulate_playback_events.py: the PlaybackEvent constructor, the  *)
(* session state machine of EventGenerator.generate_user_session and the   *)
(* batch loop of EventGenerator.generate_events; and of the Kinesis        *)
(* senders of aws/send_to_kinesis.py: KinesisEventPublisher.send_event,    *)
(* KinesisEventPublisher.send_events_batch and                             *)
(* KinesisStreamManager.send_events, one step per call of the Kinesis      *)
(* client, whose response is chosen by the environment; and of the Lambda  *)
(* function of lambda/process_events.py: lambda_handler, process_records,  *)
(* parse_kinesis_record, store_event, store_in_s3 and get_s3_key, one step *)
(* per record and one per S3 object.                                       *)
(*                                                                         *)
(* Time is counted in whole seconds (datetime + timedelta(seconds=n)).     *)
(* The fields event_id (a fresh uuid) and metadata (three random labels)   *)
(* of an event are read by no operation modelled here and are left out.    *)
(* random.randint over a wide range is drawn from the two ends of the      *)
(* range (randint_sampled); over the small range of the session size it    *)
(* is drawn from the whole range (randint).                                *)
(***************************************************************************)
EXTENDS Integers, Sequences, FiniteSets, TLC

\* ---- bounds of the model ----
NumUsers == 2
NumBooks == 1
MaxNumEvents == 6
MaxBatchEvents == 2
MaxLambdaRecords == 2

\* ---- constants of the program ----
MinTimeStep == 30
MaxTimeStep == 300
MinPositionStep == 30
MaxPositionStep == 300
MinSessionEvents == 2
MaxSessionEvents == 5
MinDuration == 3600
MaxDuration == 36000
MinChapters == 5
MaxChapters == 30
max_retries == 3
retry_delay == 1

VARIABLES
    users,          \* self.users: sequence of User
    books,          \* self.books: sequence of AudioBook
    start_date,     \* self.start_date, in seconds
    end_date,       \* self.end_date, in seconds
    op,             \* the operation called, "" before: the name of the function or constructor
    pc,             \* "idle", "loop" (generate_events), "put" (a sender), "record", "put_object" (Lambda), "returned", "raised"
    arg_user,       \* user argument of generate_user_session
    arg_book,       \* book argument of generate_user_session
    arg_event_type, \* event_type argument of PlaybackEvent(...)
    num_events,     \* num_events argument of generate_events
    events,         \* the local list `events` of generate_events
    result,         \* the returned value: a list of events (a constructed event as a one-element list), or the value of a sender or handler
    raised,         \* name of the exception that left the operation, "" if none
    clamped,        \* indexes of the session's events whose type was forced by the clamp
    planned,        \* the local num_events drawn by generate_user_session, 0 outside it
    arg_events,     \* events argument of send_event (one event), send_events_batch, send_events
    cur_events,     \* the local name `events` of send_events_batch, reassigned on a retry
    records,        \* the local list `records` of send_events_batch and send_events
    attempt,        \* the loop variable `attempt`
    put_calls,      \* the calls of put_record / put_records made so far, with their responses
    sleeps,         \* the arguments of the time.sleep calls made so far
    batch_size,     \* batch_size argument of send_events_batch and send_events
    retry_attempts, \* retry_attempts argument of send_events
    batch_start,    \* the loop variable `i` of send_events
    sent_count,     \* the local sent_count of send_events
    failed_records, \* the local list failed_records of send_events
    event_records,  \* event['Records'], the argument `records` of process_records
    record_index,   \* the position of `for record in records`: the next record
    stats,          \* the local dict stats of process_records
    processed_events, \* the local list processed_events of process_records
    put_item_calls, \* the calls of table.put_item made so far, with their outcomes
    store_in_s3_calls, \* the arguments of the calls of store_in_s3 made so far
    date_groups,    \* the local dict date_groups of store_in_s3, in insertion order
    group_index,    \* the position of `for s3_key, event_group in date_groups.items()`
    put_object_calls, \* the calls of s3.put_object made so far, with their outcomes
    store_in_s3_result \* the value store_in_s3 returned, "True" or "False"; "" before

generator_vars == <<users, books, start_date, end_date, arg_user, arg_book,
                    arg_event_type, num_events, events, clamped, planned>>

lambda_vars == <<event_records, record_index, stats, processed_events,
                 put_item_calls, store_in_s3_calls, date_groups, group_index,
                 put_object_calls, store_in_s3_result>>

kinesis_vars == <<arg_events, cur_events, records, attempt, put_calls, sleeps,
                  batch_size, retry_attempts, batch_start, sent_count,
                  failed_records>>

vars == <<users, books, start_date, end_date, op, pc, arg_user, arg_book,
          arg_event_type, num_events, events, result, raised, clamped, planned,
          arg_events, cur_events, records, attempt, put_calls, sleeps,
          batch_size, retry_attempts, batch_start, sent_count, failed_records,
          event_records, record_index, stats, processed_events, put_item_calls,
          store_in_s3_calls, date_groups, group_index, put_object_calls,
          store_in_s3_result>>

Min(a, b) == IF a <= b THEN a ELSE b

Range(s) == {s[i] : i \in DOMAIN s}

\* random.randint(lo, hi): every value of the range
randint(lo, hi) == lo..hi

\* random.randint(lo, hi) over a wide range: the two ends of the range
randint_sampled(lo, hi) == {lo, hi}

\* ---- PlaybackEvent ----
valid_event_types == {"START_PLAYBACK", "PAUSE", "RESUME", "SEEK", "END_PLAYBACK"}

\* mutant of post_init_raises: SEEK is missing from the list of valid types
post_init_raises_without_seek(event_type) ==
    event_type \notin {"START_PLAYBACK", "PAUSE", "RESUME", "END_PLAYBACK"}

\* __post_init__ raises ValueError
post_init_raises(event_type) == event_type \notin valid_event_types

PlaybackEvent(user_id, book_id, event_type, timestamp, position, chapter) ==
    [user_id |-> user_id, book_id |-> book_id, event_type |-> event_type,
     timestamp |-> timestamp, position |-> position, chapter |-> chapter]

\* ---- EventGenerator.__init__ ----
User(i) == [user_id |-> <<"user", i>>]

AudioBook(i, duration, chapters) ==
    [book_id |-> <<"book", i>>, duration |-> duration, chapters |-> chapters]

\* mutant of create_users: range(self.num_users + 1), one user too many
create_users_one_more == {[i \in 1..(NumUsers + 1) |-> User(i)]}

create_users == {[i \in 1..NumUsers |-> User(i)]}

create_books ==
    {[i \in 1..NumBooks |-> AudioBook(i, d[i], c[i])] :
        d \in [1..NumBooks -> randint_sampled(MinDuration, MaxDuration)],
        c \in [1..NumBooks -> randint_sampled(MinChapters, MaxChapters)]}

NoUser == [user_id |-> <<"user", 0>>]
NoBook == [book_id |-> <<"book", 0>>, duration |-> 0, chapters |-> 0]

\* mutant of next_event_types: a RESUME may follow a SEEK
next_event_types_resume_after_seek(last_event_type) ==
    CASE last_event_type = "START_PLAYBACK" -> {"PAUSE", "SEEK"}
      [] last_event_type = "PAUSE" -> {"RESUME"}
      [] last_event_type = "RESUME" -> {"PAUSE", "SEEK"}
      [] last_event_type = "SEEK" -> {"PAUSE", "RESUME"}
      [] OTHER -> {}

\* mutant of next_event_types: the break after END_PLAYBACK is missing, the
\* loop goes on with a SEEK
next_event_types_no_break(last_event_type) ==
    CASE last_event_type = "START_PLAYBACK" -> {"PAUSE", "SEEK"}
      [] last_event_type = "PAUSE" -> {"RESUME"}
      [] last_event_type = "RESUME" -> {"PAUSE", "SEEK"}
      [] last_event_type = "SEEK" -> {"PAUSE"}
      [] OTHER -> {"SEEK"}

\* mutant of next_event_types: a PAUSE follows a PAUSE
next_event_types_pause_after_pause(last_event_type) ==
    CASE last_event_type = "START_PLAYBACK" -> {"PAUSE", "SEEK"}
      [] last_event_type = "PAUSE" -> {"PAUSE"}
      [] last_event_type = "RESUME" -> {"PAUSE", "SEEK"}
      [] last_event_type = "SEEK" -> {"PAUSE"}
      [] OTHER -> {}

\* mutant of session_end: the closing END_PLAYBACK is not appended
session_end_missing(user, book, st) == {st}

\* mutant of time_increments: random.randint(0, 300), the clock may stand still
time_increments_from_zero == randint_sampled(0, MaxTimeStep)

\* mutant of session_sizes: random.randint(1, 5), the loop may run zero times
session_sizes_from_one == randint(MinSessionEvents - 1, MaxSessionEvents)

\* mutant of clamp: the position is left above book.duration
clamp_missing(position, book) == position

\* ---- EventGenerator.generate_user_session ----
\* the transition table of the loop; none after END_PLAYBACK (break)
next_event_types(last_event_type) ==
    CASE last_event_type = "START_PLAYBACK" -> {"PAUSE", "SEEK"}
      [] last_event_type = "PAUSE" -> {"RESUME"}
      [] last_event_type = "RESUME" -> {"PAUSE", "SEEK"}
      [] last_event_type = "SEEK" -> {"PAUSE"}
      [] OTHER -> {}

time_increments == randint_sampled(MinTimeStep, MaxTimeStep)

session_sizes == randint(MinSessionEvents, MaxSessionEvents)

\* the position after the step, before the clamp
next_positions(next_event_type, current_position, book) ==
    IF next_event_type # "SEEK"
    THEN {current_position + d : d \in randint_sampled(MinPositionStep, MaxPositionStep)}
    ELSE randint_sampled(0, book.duration)

\* current_position > book.duration
exceeds(position, book) == position > book.duration

clamp(position, book) == IF exceeds(position, book) THEN book.duration ELSE position

\* book.duration // book.chapters is zero (or chapters is): ZeroDivisionError
chapter_raises(book) ==
    \/ book.chapters = 0
    \/ book.duration \div book.chapters = 0

chapter_of(position, book) ==
    Min(book.chapters, 1 + position \div (book.duration \div book.chapters))

\* the state before the loop: the START_PLAYBACK event is in the list
session_start(user, book, start) ==
    [events |-> <<PlaybackEvent(user.user_id, book.book_id, "START_PLAYBACK",
                                start, 0, 1)>>,
     current_position |-> 0,
     current_chapter |-> 1,
     current_time |-> start,
     last_event_type |-> "START_PLAYBACK",
     clamped |-> {},
     raised |-> "",
     num_events |-> 0]

\* one pass of the loop body with the draws next_event_type, dt, position
session_step(user, book, st, next_event_type, dt, position) ==
    LET type == IF exceeds(position, book) THEN "END_PLAYBACK" ELSE next_event_type
        pos == clamp(position, book)
        time == st.current_time + dt
    IN  IF chapter_raises(book)
        THEN [st EXCEPT !.raised = "ZeroDivisionError"]
        ELSE [events |-> Append(st.events,
                                PlaybackEvent(user.user_id, book.book_id, type,
                                              time, pos, chapter_of(pos, book))),
              current_position |-> pos,
              current_chapter |-> chapter_of(pos, book),
              current_time |-> time,
              last_event_type |-> type,
              clamped |-> IF exceeds(position, book)
                          THEN st.clamped \cup {Len(st.events) + 1}
                          ELSE st.clamped,
              raised |-> "",
              num_events |-> st.num_events]

\* the states the loop can end in, with k passes left
RECURSIVE session_loop(_, _, _, _)
session_loop(user, book, st, k) ==
    IF k = 0 \/ st.raised # "" \/ next_event_types(st.last_event_type) = {}
    THEN {st}
    ELSE UNION {UNION {UNION {
            session_loop(user, book,
                         session_step(user, book, st, next_event_type, dt, position),
                         k - 1) :
                position \in next_positions(next_event_type, st.current_position, book)} :
                dt \in time_increments} :
                next_event_type \in next_event_types(st.last_event_type)}

\* the END_PLAYBACK event appended after the loop
session_end(user, book, st) ==
    IF st.raised # ""
    THEN {st}
    ELSE {[st EXCEPT
             !.events = Append(st.events,
                               PlaybackEvent(user.user_id, book.book_id, "END_PLAYBACK",
                                             st.current_time + dt,
                                             st.current_position, st.current_chapter)),
             !.current_time = st.current_time + dt,
             !.last_event_type = "END_PLAYBACK"] :
          dt \in time_increments}

\* every outcome of generate_user_session(user, book) of a generator whose
\* start_date is start: the final state of the call, with the returned list
\* in events or the exception in raised
generate_user_session(user, book, start) ==
    UNION {UNION {session_end(user, book, st) :
                    st \in session_loop(user, book,
                                        [session_start(user, book, start)
                                            EXCEPT !.num_events = n],
                                        n - 1)} :
           n \in session_sizes}

\* ---- the calls and their inputs ----
\* the constructor's window arguments: start_date, and end_date - start_date;
\* the window is shorter than the longest session (five steps of 300 s)
start_dates == {1000}
window_lengths == {60}

\* event_type arguments given to the constructor
event_type_inputs ==
    valid_event_types \cup {"INVALID_TYPE", "INVALID_EVENT", "pause", ""}

\* books a caller hands to generate_user_session besides the generator's own
caller_books ==
    {AudioBook(101, 100, 3), AudioBook(102, 7, 7),
     AudioBook(103, 50, 1), AudioBook(104, 2, 5)}

\* the outcomes of generate_user_session for every user, book and start date
\* of the model, computed once
all_users == UNION {Range(us) : us \in create_users}
all_books == UNION {Range(bs) : bs \in create_books} \cup caller_books
sessions ==
    [user \in all_users, book \in all_books, start \in start_dates |->
        generate_user_session(user, book, start)]

\* the same outcomes, the returned lists sorted by their length
session_lengths == 0..(MaxSessionEvents + 1)
sessions_by_length ==
    [user \in all_users, book \in all_books, start \in start_dates |->
        [raised |-> {o \in sessions[user, book, start] : o.raised # ""},
         returned |-> [l \in session_lengths |->
                        {o \in sessions[user, book, start] :
                            o.raised = "" /\ Len(o.events) = l}]]]

Init ==
    /\ users \in create_users
    /\ books \in create_books
    /\ start_date \in start_dates
    /\ end_date \in {start_date + w : w \in window_lengths}
    /\ op = ""
    /\ pc = "idle"
    /\ arg_user = NoUser
    /\ arg_book = NoBook
    /\ arg_event_type = ""
    /\ num_events = 0
    /\ events = <<>>
    /\ result = <<>>
    /\ raised = ""
    /\ clamped = {}
    /\ planned = 0
    /\ arg_events = <<>>
    /\ cur_events = <<>>
    /\ records = <<>>
    /\ attempt = 0
    /\ put_calls = <<>>
    /\ sleeps = <<>>
    /\ batch_size = 0
    /\ retry_attempts = 0
    /\ batch_start = 0
    /\ sent_count = 0
    /\ failed_records = <<>>
    /\ event_records = <<>>
    /\ record_index = 0
    /\ stats = [processed |-> 0, failed |-> 0]
    /\ processed_events = <<>>
    /\ put_item_calls = <<>>
    /\ store_in_s3_calls = <<>>
    /\ date_groups = <<>>
    /\ group_index = 0
    /\ put_object_calls = <<>>
    /\ store_in_s3_result = ""

\* PlaybackEvent(..., event_type=event_type, ...): the dataclass constructor,
\* then __post_init__
CallPlaybackEvent(event_type) ==
    /\ pc = "idle"
    /\ op' = "PlaybackEvent"
    /\ arg_event_type' = event_type
    /\ IF post_init_raises(event_type)
       THEN /\ raised' = "ValueError"
            /\ pc' = "raised"
            /\ result' = <<>>
       ELSE /\ raised' = ""
            /\ pc' = "returned"
            /\ result' = <<PlaybackEvent(<<"user", 0>>, <<"book", 0>>, event_type,
                                         start_date, 0, 1)>>
    /\ UNCHANGED <<users, books, start_date, end_date, arg_user, arg_book,
                   num_events, events, clamped, planned>>
    /\ UNCHANGED kinesis_vars
    /\ UNCHANGED lambda_vars

\* generator.generate_user_session(user, book)
CallGenerateUserSession(user, book) ==
    /\ pc = "idle"
    /\ op' = "generate_user_session"
    /\ arg_user' = user
    /\ arg_book' = book
    /\ \E o \in sessions[user, book, start_date] :
          IF o.raised # ""
          THEN /\ raised' = o.raised
               /\ pc' = "raised"
               /\ result' = <<>>
               /\ clamped' = {}
               /\ planned' = o.num_events
          ELSE /\ raised' = ""
               /\ pc' = "returned"
               /\ result' = o.events
               /\ clamped' = o.clamped
               /\ planned' = o.num_events
    /\ UNCHANGED <<users, books, start_date, end_date, arg_event_type,
                   num_events, events>>
    /\ UNCHANGED kinesis_vars
    /\ UNCHANGED lambda_vars

\* ---- EventGenerator.generate_event ----
\* random.randint(a, b) raises ValueError on an empty range
generate_event_raises(book) ==
    \/ end_date < start_date
    \/ book.duration < 0
    \/ book.chapters < 1

\* the events generate_event(user, book) can return: type, timestamp, position
\* and chapter are four independent draws
generate_event(user, book) ==
    {PlaybackEvent(user.user_id, book.book_id, event_type, start_date + dt,
                   position, chapter) :
        event_type \in valid_event_types,
        dt \in randint_sampled(0, end_date - start_date),
        position \in randint_sampled(0, book.duration),
        chapter \in randint_sampled(1, book.chapters)}

\* generator.generate_event(user, book); a user or book left out is drawn
\* from self.users or self.books
CallGenerateEvent(user, book) ==
    /\ pc = "idle"
    /\ op' = "generate_event"
    /\ arg_user' = user
    /\ arg_book' = book
    /\ IF generate_event_raises(book)
       THEN /\ raised' = "ValueError"
            /\ pc' = "raised"
            /\ result' = <<>>
       ELSE /\ raised' = ""
            /\ pc' = "returned"
            /\ \E e \in generate_event(user, book) : result' = <<e>>
    /\ UNCHANGED <<users, books, start_date, end_date, arg_event_type,
                   num_events, events, clamped, planned>>
    /\ UNCHANGED kinesis_vars
    /\ UNCHANGED lambda_vars

\* mutant of session_fits: the session is appended without the test
session_fits_always(len_events, len_session_events, n) == TRUE

\* mutant of loop_condition: while len(events) + 1 < num_events
loop_condition_off_by_one(evs, n) == Len(evs) + 1 < n

\* ---- EventGenerator.generate_events ----
\* while len(events) < num_events
loop_condition(evs, n) == Len(evs) < n

\* if len(events) + len(session_events) <= num_events
session_fits(len_events, len_session_events, n) == len_events + len_session_events <= n

\* events[:num_events], for num_events >= 0
slice_to(evs, n) == SubSeq(evs, 1, Min(n, Len(evs)))

\* the test of the while loop on the list evs: another pass, or the return
\* of events[:num_events]
LoopTest(evs) ==
    IF loop_condition(evs, num_events')
    THEN /\ pc' = "loop"
         /\ result' = <<>>
    ELSE /\ pc' = "returned"
         /\ result' = slice_to(evs, num_events')

\* generator.generate_events(n): events = [], and the first test of the loop
CallGenerateEvents(n) ==
    /\ pc = "idle"
    /\ op' = "generate_events"
    /\ num_events' = n
    /\ events' = <<>>
    /\ LoopTest(events')
    /\ UNCHANGED <<users, books, start_date, end_date, arg_user, arg_book,
                   arg_event_type, raised, clamped, planned>>
    /\ UNCHANGED kinesis_vars
    /\ UNCHANGED lambda_vars

\* one pass of the while loop, and the test that follows it: a random user
\* and book, a session, and the session is appended whole, or dropped, or its
\* exception leaves the call
GenerateEventsIterate ==
    /\ pc = "loop"
    /\ \E user \in Range(users), book \in Range(books) :
         LET outcomes == sessions_by_length[user, book, start_date] IN
         \/ \E o \in outcomes.raised :
               /\ raised' = o.raised
               /\ pc' = "raised"
               /\ UNCHANGED <<events, result, num_events>>
         \/ \E l \in session_lengths :
               /\ session_fits(Len(events), l, num_events)
               /\ \E o \in outcomes.returned[l] :
                     /\ events' = events \o o.events
                     /\ UNCHANGED <<raised, num_events>>
                     /\ LoopTest(events')
         \/ /\ {l \in session_lengths :
                    /\ outcomes.returned[l] # {}
                    /\ ~session_fits(Len(events), l, num_events)} # {}
            /\ UNCHANGED <<events, raised, pc, result, num_events>>
    /\ UNCHANGED <<users, books, start_date, end_date, op, arg_user, arg_book,
                   arg_event_type, clamped, planned>>
    /\ UNCHANGED kinesis_vars
    /\ UNCHANGED lambda_vars

\* ---- the Kinesis client (boto3) ----
Throttled == "ProvisionedThroughputExceededException"

\* the error codes a ClientError of the client carries
client_error_codes == {Throttled, "ResourceNotFoundException"}

\* the outcomes of the n-th call of the client, put_record: a response with
\* ShardId and SequenceNumber, or a ClientError (written [Error |-> code])
put_record_responses(n) ==
    {[ShardId |-> "shard-1", SequenceNumber |-> n]}
        \cup {[Error |-> code] : code \in client_error_codes}

\* the outcomes of the n-th call of the client, put_records(Records=recs): one
\* entry per record, accepted (ShardId, SequenceNumber) or failed (ErrorCode),
\* with their count in FailedRecordCount; or a ClientError, whose code no
\* caller of put_records reads
put_records_responses(recs, n) ==
    {[Records |-> [j \in 1..Len(recs) |->
                      IF j \in failed
                      THEN [ErrorCode |-> Throttled]
                      ELSE [ShardId |-> "shard-1", SequenceNumber |-> 10 * n + j]],
      FailedRecordCount |-> Cardinality(failed)] :
        failed \in SUBSET (1..Len(recs))}
        \cup {[Error |-> Throttled]}

is_client_error(response) == "Error" \in DOMAIN response

\* mutant of take: every element is kept
take_all(s, indexes) == s

\* the elements of s at the indexes of the set indexes, in order
take(s, indexes) ==
    LET F[j \in 0..Len(s)] ==
            IF j = 0 THEN <<>>
            ELSE IF j \in indexes THEN Append(F[j - 1], s[j]) ELSE F[j - 1]
    IN F[Len(s)]

\* [idx for idx, record in enumerate(response['Records']) if 'ErrorCode' in record]
error_indexes(response) ==
    {j \in 1..Len(response.Records) : "ErrorCode" \in DOMAIN response.Records[j]}

\* [{ShardId, SequenceNumber} for record in response['Records'] if 'ShardId' in record]
accepted_responses(response) ==
    LET accepted == SelectSeq(response.Records, LAMBDA r : "ShardId" \in DOMAIN r)
    IN [j \in 1..Len(accepted) |->
           [ShardId |-> accepted[j].ShardId,
            SequenceNumber |-> accepted[j].SequenceNumber]]

\* ---- the events and arguments of the senders ----
user_id_inputs == {"user_1", ""}

\* the lists of n events, numbered by event_id, with every choice of user_id
event_lists(n) ==
    {[j \in 1..n |-> [event_id |-> j, user_id |-> user_id_of[j]]] :
        user_id_of \in [1..n -> user_id_inputs]}

event_list_inputs == UNION {event_lists(n) : n \in 0..MaxBatchEvents}

\* the lists sent through KinesisStreamManager: every event has a user_id
stream_event_list_inputs ==
    {evs \in event_list_inputs : \A j \in 1..Len(evs) : evs[j].user_id # ""}

batch_size_inputs == 1..MaxBatchEvents

retry_attempts_inputs == 0..max_retries

\* {'Data': json.dumps(event_data), 'PartitionKey': event.user_id}: the
\* serialised event is written as the event itself
record_of(event) == [Data |-> event, PartitionKey |-> event.user_id]

\* the values a sender returns
ReturnedDict(value) == [type |-> "dict", value |-> value]
ReturnedList(value) == [type |-> "list", value |-> value]
ReturnedBool(value) == [type |-> "bool", value |-> value]
ReturnedNone == [type |-> "None", value |-> <<>>]

\* mutant of may_retry: the last attempt is retried too
may_retry_after_last(attempt_no) == attempt_no < max_retries

\* mutant of send_events_batch_raises: the size of the list is not tested
send_events_batch_raises_without_size(evs, size) ==
    \E j \in 1..Len(evs) : evs[j].user_id = ""

\* mutant of may_retry: the test of the attempt number is missing
may_retry_always(attempt_no) == TRUE

\* mutant of is_retryable: every ClientError is retried
is_retryable_any(code) == TRUE

\* ---- KinesisEventPublisher ----
\* e.response['Error']['Code'] == 'ProvisionedThroughputExceededException'
is_retryable(code) == code = Throttled

\* attempt < self.max_retries - 1
may_retry(attempt_no) == attempt_no < max_retries - 1

\* self.retry_delay * (2 ** attempt)
backoff(attempt_no) == retry_delay * 2 ^ attempt_no

\* if not event.user_id: raise ValueError
send_event_raises(event) == event.user_id = ""

\* the two tests of send_events_batch that raise ValueError
send_events_batch_raises(evs, size) ==
    \/ Len(evs) > size
    \/ \E j \in 1..Len(evs) : evs[j].user_id = ""

\* `for attempt in range(self.max_retries)` at attempt_no: the next call of
\* the client, or the end of the loop and of the function, which returns None
PublisherLoop(attempt_no) ==
    /\ attempt' = attempt_no
    /\ IF attempt_no < max_retries
       THEN /\ pc' = "put"
            /\ result' = <<>>
       ELSE /\ pc' = "returned"
            /\ result' = ReturnedNone

\* publisher.send_event(event), up to the first call of the client
CallSendEvent(event) ==
    /\ pc = "idle"
    /\ op' = "send_event"
    /\ arg_events' = <<event>>
    /\ IF send_event_raises(event)
       THEN /\ raised' = "ValueError"
            /\ pc' = "raised"
            /\ result' = <<>>
            /\ UNCHANGED attempt
       ELSE /\ raised' = ""
            /\ PublisherLoop(0)
    /\ UNCHANGED <<cur_events, records, put_calls, sleeps, batch_size,
                   retry_attempts, batch_start, sent_count, failed_records>>
    /\ UNCHANGED generator_vars
    /\ UNCHANGED lambda_vars

\* one pass of the loop of send_event: put_record, and the return, the retry
\* or the raise that follows its outcome
SendEventAttempt ==
    /\ pc = "put"
    /\ op = "send_event"
    /\ \E response \in put_record_responses(Len(put_calls) + 1) :
          /\ put_calls' = Append(put_calls, [request |-> record_of(arg_events[1]),
                                            response |-> response])
          /\ IF ~is_client_error(response)
             THEN /\ pc' = "returned"
                  /\ result' = ReturnedDict([ShardId |-> response.ShardId,
                                             SequenceNumber |-> response.SequenceNumber])
                  /\ UNCHANGED <<attempt, sleeps, raised>>
             ELSE IF is_retryable(response.Error) /\ may_retry(attempt)
             THEN /\ sleeps' = Append(sleeps, backoff(attempt))
                  /\ PublisherLoop(attempt + 1)
                  /\ UNCHANGED raised
             ELSE /\ raised' = "ClientError"
                  /\ pc' = "raised"
                  /\ UNCHANGED <<attempt, sleeps, result>>
    /\ UNCHANGED <<op, arg_events, cur_events, records, batch_size,
                   retry_attempts, batch_start, sent_count, failed_records>>
    /\ UNCHANGED generator_vars
    /\ UNCHANGED lambda_vars

\* publisher.send_events_batch(events, batch_size), up to the first call of
\* the client
CallSendEventsBatch(evs, size) ==
    /\ pc = "idle"
    /\ op' = "send_events_batch"
    /\ arg_events' = evs
    /\ batch_size' = size
    /\ cur_events' = evs
    /\ IF send_events_batch_raises(evs, size)
       THEN /\ raised' = "ValueError"
            /\ pc' = "raised"
            /\ result' = <<>>
            /\ UNCHANGED <<records, attempt>>
       ELSE /\ raised' = ""
            /\ records' = [j \in 1..Len(evs) |-> record_of(evs[j])]
            /\ PublisherLoop(0)
    /\ UNCHANGED <<put_calls, sleeps, retry_attempts, batch_start, sent_count,
                   failed_records>>
    /\ UNCHANGED generator_vars
    /\ UNCHANGED lambda_vars

\* one pass of the loop of send_events_batch: put_records(Records=records),
\* the list of the failed events read from the local `events`, and the retry,
\* the return or the raise
SendEventsBatchAttempt ==
    /\ pc = "put"
    /\ op = "send_events_batch"
    /\ \E response \in put_records_responses(records, Len(put_calls) + 1) :
          /\ put_calls' = Append(put_calls, [request |-> records,
                                            response |-> response])
          /\ IF is_client_error(response)
             THEN /\ raised' = "ClientError"
                  /\ pc' = "raised"
                  /\ UNCHANGED <<attempt, sleeps, result, cur_events>>
             ELSE IF response.FailedRecordCount > 0
                     /\ \E j \in error_indexes(response) : j > Len(cur_events)
             THEN \* events[i] with i past the end of the reassigned list
                  /\ raised' = "IndexError"
                  /\ pc' = "raised"
                  /\ UNCHANGED <<attempt, sleeps, result, cur_events>>
             ELSE IF response.FailedRecordCount > 0 /\ may_retry(attempt)
             THEN /\ sleeps' = Append(sleeps, backoff(attempt))
                  /\ cur_events' = take(cur_events, error_indexes(response))
                  /\ PublisherLoop(attempt + 1)
                  /\ UNCHANGED raised
             ELSE /\ pc' = "returned"
                  /\ result' = ReturnedList(accepted_responses(response))
                  /\ UNCHANGED <<attempt, sleeps, raised, cur_events>>
    /\ UNCHANGED <<op, arg_events, records, batch_size, retry_attempts,
                   batch_start, sent_count, failed_records>>
    /\ UNCHANGED generator_vars
    /\ UNCHANGED lambda_vars

\* ---- KinesisStreamManager ----
\* `for i in range(0, total_events, batch_size)` at i = start, for a call with
\* the arguments evs, size and retries: the first call of the client for the
\* batch; a batch with no attempt (retry_attempts = 0) is passed over, and
\* after the last batch the function returns
StreamLoop(evs, size, retries, start, failed) ==
    IF start < Len(evs) /\ retries > 0
    THEN /\ batch_start' = start
         /\ records' = [j \in 1..Min(size, Len(evs) - start) |->
                           record_of(evs[start + j])]
         /\ attempt' = 0
         /\ pc' = "put"
         /\ result' = <<>>
    ELSE /\ pc' = "returned"
         /\ result' = ReturnedBool(failed = <<>>)
         /\ UNCHANGED <<batch_start, records, attempt>>

\* manager.send_events(events, batch_size, retry_attempts), up to the first
\* call of the client
CallSendEvents(evs, size, retries) ==
    /\ pc = "idle"
    /\ op' = "send_events"
    /\ arg_events' = evs
    /\ batch_size' = size
    /\ retry_attempts' = retries
    /\ sent_count' = 0
    /\ failed_records' = <<>>
    /\ raised' = ""
    /\ StreamLoop(evs, size, retries, 0, <<>>)
    /\ UNCHANGED <<cur_events, put_calls, sleeps>>
    /\ UNCHANGED generator_vars
    /\ UNCHANGED lambda_vars

\* one pass of the retry loop of send_events: put_records(Records=records),
\* then the break, the retry of the failed records, or the records given up
SendEventsAttempt ==
    /\ pc = "put"
    /\ op = "send_events"
    /\ \E response \in put_records_responses(records, Len(put_calls) + 1) :
          /\ put_calls' = Append(put_calls, [request |-> records,
                                            response |-> response])
          /\ IF is_client_error(response)
             THEN IF attempt < retry_attempts - 1
                  THEN /\ sleeps' = Append(sleeps, 2 ^ attempt)
                       /\ attempt' = attempt + 1
                       /\ UNCHANGED <<pc, result, records, batch_start,
                                      sent_count, failed_records>>
                  ELSE /\ failed_records' = failed_records \o records
                       /\ StreamLoop(arg_events, batch_size, retry_attempts,
                                     batch_start + batch_size, failed_records')
                       /\ UNCHANGED <<sleeps, sent_count>>
             ELSE IF response.FailedRecordCount = 0
             THEN /\ sent_count' = sent_count
                                     + Min(batch_size, Len(arg_events) - batch_start)
                  /\ StreamLoop(arg_events, batch_size, retry_attempts,
                                batch_start + batch_size, failed_records)
                  /\ UNCHANGED <<sleeps, failed_records>>
             ELSE IF attempt < retry_attempts - 1
             THEN /\ records' = take(records, error_indexes(response))
                  /\ attempt' = attempt + 1
                  /\ UNCHANGED <<pc, result, sleeps, batch_start, sent_count,
                                 failed_records>>
             ELSE /\ failed_records' = failed_records \o records
                  /\ StreamLoop(arg_events, batch_size, retry_attempts,
                                batch_start + batch_size, failed_records')
                  /\ UNCHANGED <<sleeps, sent_count>>
    /\ UNCHANGED <<op, raised, arg_events, cur_events, batch_size, retry_attempts>>
    /\ UNCHANGED generator_vars
    /\ UNCHANGED lambda_vars

\* the events accepted by Kinesis in some call of put_record or put_records
accepted_events ==
    {call.request.Data :
        call \in {c \in Range(put_calls) :
                    /\ ~is_client_error(c.response)
                    /\ "ShardId" \in DOMAIN c.response}}
    \cup
    UNION {{call.request[j].Data :
                j \in {k \in 1..Len(call.request) :
                          "ShardId" \in DOMAIN call.response.Records[k]}} :
           call \in {c \in Range(put_calls) :
                       /\ ~is_client_error(c.response)
                       /\ "Records" \in DOMAIN c.response}}

NextKinesis ==
    \/ \E evs \in event_lists(1) : CallSendEvent(evs[1])
    \/ SendEventAttempt
    \/ \E evs \in event_list_inputs, size \in batch_size_inputs :
          CallSendEventsBatch(evs, size)
    \/ SendEventsBatchAttempt
    \/ \E evs \in stream_event_list_inputs, size \in batch_size_inputs,
          retries \in retry_attempts_inputs :
          CallSendEvents(evs, size, retries)
    \/ SendEventsAttempt

\* ---- the Lambda function: records, timestamps and outcomes of the services ----
S3_PREFIX == "audiobook-events"

\* timestamps of events: ISO strings of two times of one day and of a time of
\* the next day, and a string that datetime.fromisoformat rejects
timestamp_inputs ==
    {[iso |-> TRUE, year |-> 2024, month |-> 1, day |-> 1, time |-> "10:00"],
     [iso |-> TRUE, year |-> 2024, month |-> 1, day |-> 1, time |-> "23:00"],
     [iso |-> TRUE, year |-> 2024, month |-> 1, day |-> 2, time |-> "10:00"],
     [iso |-> FALSE, year |-> 0, month |-> 0, day |-> 0, time |-> "yesterday"]}

\* datetime.utcnow(), read when a timestamp is rejected
utcnow == [year |-> 2024, month |-> 1, day |-> 3]

\* the j-th value of uuid.uuid4() in a call: fresh
uuid4(j) == j

\* the event of the j-th record: the decoded JSON object
event_data(j, timestamp) ==
    [event_id |-> j, user_id |-> "user_1", book_id |-> "book_1",
     event_type |-> "START_PLAYBACK", timestamp |-> timestamp, position |-> 0]

\* the kinds of Kinesis record the handler is given, by what
\* base64.b64decode and json.loads make of record['kinesis']['data']
record_kinds == {"day_1", "day_2", "invalid_json", "missing_field", "number",
                 "no_kinesis"}

kinesis_record(j, kind) ==
    CASE kind = "day_1" ->
           [seq |-> j,
            kinesis |-> [data |-> [json |-> "object",
                                   object |-> event_data(j, [iso |-> TRUE, year |-> 2024,
                                                             month |-> 1, day |-> 1,
                                                             time |-> "10:00"])]]]
      [] kind = "day_2" ->
           [seq |-> j,
            kinesis |-> [data |-> [json |-> "object",
                                   object |-> event_data(j, [iso |-> TRUE, year |-> 2024,
                                                             month |-> 1, day |-> 2,
                                                             time |-> "10:00"])]]]
      [] kind = "invalid_json" ->
           [seq |-> j, kinesis |-> [data |-> [json |-> "invalid"]]]
      [] kind = "missing_field" ->
           [seq |-> j,
            kinesis |-> [data |-> [json |-> "object",
                                   object |-> [event_id |-> j, user_id |-> "user_1"]]]]
      [] kind = "number" ->
           [seq |-> j, kinesis |-> [data |-> [json |-> "number"]]]
      [] OTHER -> [seq |-> j]

record_lists(n) ==
    {[j \in 1..n |-> kinesis_record(j, kind_of[j])] : kind_of \in [1..n -> record_kinds]}

record_list_inputs == UNION {record_lists(n) : n \in 0..MaxLambdaRecords}

\* the Lambda events: with a list of records, or without the key 'Records'
lambda_event_inputs ==
    {[Records |-> recs] : recs \in record_list_inputs} \cup {[source |-> "test"]}

\* the lists of events store_in_s3 is called with
s3_event_lists(n) ==
    {[j \in 1..n |-> event_data(j, timestamp_of[j])] :
        timestamp_of \in [1..n -> timestamp_inputs]}

s3_event_list_inputs == UNION {s3_event_lists(n) : n \in 0..MaxLambdaRecords}

\* table.put_item: done, a ClientError, or an error of the connection, which
\* is no ClientError
put_item_outcomes == {"ok", "ClientError", "EndpointConnectionError"}

\* s3.put_object: done, a ClientError, or an error of the connection
put_object_outcomes == {"ok", "ClientError", "EndpointConnectionError"}

\* mutant of count_failed: a failed record is not counted
count_failed_never(st) == st

\* mutant of append_processed: the item is appended although the write failed
append_processed_always(processed, item, outcome) == Append(processed, item)

\* ---- get_s3_key, store_in_s3 ----
\* the key prefix/yyyy/mm/dd/<uuid>.json of the timestamp's date, or
\* prefix/yyyy/mm/dd/error_<uuid>.json of today when the timestamp is rejected
get_s3_key(timestamp, uuid) ==
    IF timestamp.iso
    THEN <<S3_PREFIX, timestamp.year, timestamp.month, timestamp.day, "", uuid>>
    ELSE <<S3_PREFIX, utcnow.year, utcnow.month, utcnow.day, "error_", uuid>>

\* date_groups after the first loop of store_in_s3: the keys in the order of
\* their first event, each with the list of its events
group_by_key(events_) ==
    LET F[j \in 0..Len(events_)] ==
            IF j = 0 THEN <<>>
            ELSE LET s3_key == get_s3_key(events_[j].timestamp, uuid4(j))
                     groups == F[j - 1]
                 IN  IF \E g \in 1..Len(groups) : groups[g].s3_key = s3_key
                     THEN [g \in 1..Len(groups) |->
                              IF groups[g].s3_key = s3_key
                              THEN [groups[g] EXCEPT
                                       !.event_group = Append(@, events_[j])]
                              ELSE groups[g]]
                     ELSE Append(groups, [s3_key |-> s3_key,
                                          event_group |-> <<events_[j]>>])
    IN F[Len(events_)]

\* ---- parse_kinesis_record, process_records ----
required_fields == {"user_id", "book_id", "event_type", "timestamp", "position"}

\* the item of the record, or the exception that leaves parse_kinesis_record:
\* KeyError and JSONDecodeError leave it as ValueError; a JSON value that is
\* no container fails the test `field in event_data` with TypeError.
\* The field processed_at (the time of the call) is left out.
parse_kinesis_record(record) ==
    IF "kinesis" \notin DOMAIN record
    THEN [raised |-> "ValueError", item |-> <<>>]
    ELSE IF record.kinesis.data.json = "invalid"
    THEN [raised |-> "ValueError", item |-> <<>>]
    ELSE IF record.kinesis.data.json # "object"
    THEN [raised |-> "TypeError", item |-> <<>>]
    ELSE IF ~(required_fields \subseteq DOMAIN record.kinesis.data.object)
    THEN [raised |-> "ValueError", item |-> <<>>]
    ELSE LET data == record.kinesis.data.object
         IN [raised |-> "",
             item |-> [event_id |-> data.event_id,
                       user_id |-> data.user_id,
                       book_id |-> data.book_id,
                       event_type |-> data.event_type,
                       timestamp |-> data.timestamp,
                       position |-> data.position]]

\* stats['processed'] += 1
count_processed(st) == [st EXCEPT !.processed = @ + 1]

\* stats['failed'] += 1
count_failed(st) == [st EXCEPT !.failed = @ + 1]

\* processed_events.append(item), reached only when store_event raised nothing
append_processed(processed, item, outcome) ==
    IF outcome = "ok" THEN Append(processed, item) ELSE processed

\* the value lambda_handler returns
handler_result(st) ==
    [statusCode |-> 200,
     body |-> [message |-> "Event processing complete",
               processed_count |-> st.processed,
               failed_count |-> st.failed]]

\* store_in_s3(events_): the groups are made, and the first put_object is
\* next, or the function returns True at once when there is no group
EnterStoreInS3(events_) ==
    /\ store_in_s3_calls' = Append(store_in_s3_calls, events_)
    /\ date_groups' = group_by_key(events_)
    /\ group_index' = 1
    /\ UNCHANGED put_object_calls

\* process_records after its loop, with the list processed and the counts st:
\* store_in_s3 if the list is not empty, then the return of lambda_handler
AfterRecords(processed, st) ==
    IF processed # <<>>
    THEN /\ EnterStoreInS3(processed)
         /\ pc' = "put_object"
         /\ UNCHANGED <<result, raised, store_in_s3_result>>
    ELSE /\ pc' = "returned"
         /\ result' = handler_result(st)
         /\ UNCHANGED <<raised, store_in_s3_calls, date_groups, group_index,
                        put_object_calls, store_in_s3_result>>

\* lambda_handler(event, context), up to the first record of process_records;
\* event['Records'] of an event without the key raises KeyError, re-raised
CallLambdaHandler(event) ==
    /\ pc = "idle"
    /\ op' = "lambda_handler"
    /\ stats' = [processed |-> 0, failed |-> 0]
    /\ processed_events' = <<>>
    /\ record_index' = 1
    /\ IF "Records" \notin DOMAIN event
       THEN /\ raised' = "KeyError"
            /\ pc' = "raised"
            /\ UNCHANGED <<event_records, result, store_in_s3_calls, date_groups,
                           group_index, put_object_calls, store_in_s3_result>>
       ELSE /\ event_records' = event.Records
            /\ IF event.Records = <<>>
               THEN AfterRecords(<<>>, stats')
               ELSE /\ pc' = "record"
                    /\ UNCHANGED <<result, raised, store_in_s3_calls, date_groups,
                                   group_index, put_object_calls, store_in_s3_result>>
    /\ UNCHANGED put_item_calls
    /\ UNCHANGED generator_vars
    /\ UNCHANGED kinesis_vars

\* one pass of the loop of process_records: the record is parsed and its item
\* written with put_item; it is counted as processed or as failed, or an
\* exception that is neither ValueError nor ClientError leaves the handler
ProcessRecord ==
    /\ pc = "record"
    /\ op = "lambda_handler"
    /\ LET parsed == parse_kinesis_record(event_records[record_index]) IN
       IF parsed.raised = "ValueError"
       THEN /\ stats' = count_failed(stats)
            /\ record_index' = record_index + 1
            /\ UNCHANGED <<processed_events, put_item_calls>>
            /\ IF record_index = Len(event_records)
               THEN AfterRecords(processed_events, stats')
               ELSE UNCHANGED <<pc, result, raised, store_in_s3_calls, date_groups,
                                group_index, put_object_calls, store_in_s3_result>>
       ELSE IF parsed.raised # ""
       THEN /\ raised' = parsed.raised
            /\ pc' = "raised"
            /\ UNCHANGED <<stats, record_index, processed_events, put_item_calls,
                           result, store_in_s3_calls, date_groups, group_index,
                           put_object_calls, store_in_s3_result>>
       ELSE \E outcome \in put_item_outcomes :
               /\ put_item_calls' = Append(put_item_calls,
                                           [Item |-> parsed.item, outcome |-> outcome])
               /\ IF outcome \notin {"ok", "ClientError"}
                  THEN /\ raised' = outcome
                       /\ pc' = "raised"
                       /\ UNCHANGED <<stats, record_index, processed_events, result,
                                      store_in_s3_calls, date_groups, group_index,
                                      put_object_calls, store_in_s3_result>>
                  ELSE /\ processed_events' =
                              append_processed(processed_events, parsed.item, outcome)
                       /\ stats' = IF outcome = "ok" THEN count_processed(stats)
                                   ELSE count_failed(stats)
                       /\ record_index' = record_index + 1
                       /\ IF record_index = Len(event_records)
                          THEN AfterRecords(processed_events', stats')
                          ELSE UNCHANGED <<pc, result, raised, store_in_s3_calls,
                                           date_groups, group_index, put_object_calls,
                                           store_in_s3_result>>
    /\ UNCHANGED <<op, event_records>>
    /\ UNCHANGED generator_vars
    /\ UNCHANGED kinesis_vars

\* store_in_s3(events_) called by itself
CallStoreInS3(events_) ==
    /\ pc = "idle"
    /\ op' = "store_in_s3"
    /\ EnterStoreInS3(events_)
    /\ IF date_groups' = <<>>
       THEN /\ pc' = "returned"
            /\ store_in_s3_result' = "True"
            /\ result' = ReturnedBool(TRUE)
       ELSE /\ pc' = "put_object"
            /\ UNCHANGED <<store_in_s3_result, result>>
    /\ UNCHANGED <<raised, event_records, record_index, stats, processed_events,
                   put_item_calls>>
    /\ UNCHANGED generator_vars
    /\ UNCHANGED kinesis_vars

\* one pass of the second loop of store_in_s3: put_object of one group; a
\* failure ends store_in_s3 with False, the last group done with True; then
\* the caller goes on: process_records returns its counts whatever the value
PutObject ==
    /\ pc = "put_object"
    /\ \E outcome \in put_object_outcomes :
          /\ put_object_calls' =
                Append(put_object_calls,
                       [Key |-> date_groups[group_index].s3_key,
                        Body |-> date_groups[group_index].event_group,
                        outcome |-> outcome])
          /\ IF outcome = "ok" /\ group_index < Len(date_groups)
             THEN /\ group_index' = group_index + 1
                  /\ UNCHANGED <<pc, result, store_in_s3_result>>
             ELSE /\ store_in_s3_result' = IF outcome = "ok" THEN "True" ELSE "False"
                  /\ pc' = "returned"
                  /\ result' = IF op = "store_in_s3"
                               THEN ReturnedBool(outcome = "ok")
                               ELSE handler_result(stats)
                  /\ UNCHANGED group_index
    /\ UNCHANGED <<op, raised, event_records, record_index, stats, processed_events,
                   put_item_calls, store_in_s3_calls, date_groups>>
    /\ UNCHANGED generator_vars
    /\ UNCHANGED kinesis_vars

NextLambda ==
    \/ \E event \in lambda_event_inputs : CallLambdaHandler(event)
    \/ ProcessRecord
    \/ \E events_ \in s3_event_list_inputs : CallStoreInS3(events_)
    \/ PutObject

\* ---- specifications ----
NextSession ==
    \/ \E event_type \in event_type_inputs : CallPlaybackEvent(event_type)
    \/ \E user \in Range(users), book \in Range(books) \cup caller_books :
          CallGenerateUserSession(user, book)
    \/ \E user \in Range(users), book \in Range(books) \cup caller_books :
          CallGenerateEvent(user, book)

NextEvents ==
    \/ \E n \in 0..MaxNumEvents : CallGenerateEvents(n)
    \/ GenerateEventsIterate

NextGenerator == NextSession \/ NextEvents

Next == NextGenerator \/ NextKinesis \/ NextLambda

\* every operation of the generator, of the senders and of the Lambda function
Spec == Init /\ [][Next]_vars

\* one constructor call, one session or one single event
SpecSession == Init /\ [][NextSession]_vars

\* one call of generate_events
SpecEvents == Init /\ [][NextEvents]_vars

\* every operation of the generator
SpecGenerator == Init /\ [][NextGenerator]_vars

\* one call of send_event, send_events_batch or send_events
SpecKinesis == Init /\ [][NextKinesis]_vars

\* one call of lambda_handler or of store_in_s3
SpecLambda == Init /\ [][NextLambda]_vars

\* generate_events runs on, and its random draws are fair: a pass of the loop
\* that changes the list is eventually drawn whenever one stays possible
FairSpecEvents == SpecEvents /\ WF_vars(GenerateEventsIterate)

\* ---- the claims ----
SessionReturned == op = "generate_user_session" /\ pc = "returned"
EventsReturned == op = "generate_events" /\ pc = "returned"

user_ids == {users[i].user_id : i \in DOMAIN users}
book_ids == {books[i].book_id : i \in DOMAIN books}

\* C1: every list returned by generate_user_session has at least 3 events,
\* starts with START_PLAYBACK and ends with END_PLAYBACK.
C1_SessionShape ==
    SessionReturned =>
        /\ Len(result) >= 3
        /\ result[1].event_type = "START_PLAYBACK"
        /\ result[Len(result)].event_type = "END_PLAYBACK"

\* a session of the least size, three events, was returned
C1_Witness ==
    /\ SessionReturned
    /\ Len(result) = 3
    /\ result[2].event_type \in {"PAUSE", "SEEK"}

\* C2: for every target of at least 3 events, generate_events eventually
\* returns with exactly that many events.
C2_Terminates ==
    (op = "generate_events" /\ num_events >= 3)
        ~> (pc = "returned" /\ Len(result) = num_events)

\* C3: whenever generate_events(N) returns, the list has exactly N events,
\* each of a user and a book of the generator.
C3_ExactCount ==
    EventsReturned =>
        /\ Len(result) = num_events
        /\ \A i \in DOMAIN result :
              /\ result[i].user_id \in user_ids
              /\ result[i].book_id \in book_ids

\* generate_events(6) returned two sessions of three events
C3_Witness ==
    /\ EventsReturned
    /\ num_events = MaxNumEvents
    /\ Len(result) = MaxNumEvents
    /\ result[4].event_type = "START_PLAYBACK"

\* C4: a target of 1 or 2 events is rejected with an error, the loop is not
\* entered.
C4_SmallTargetRejected ==
    (op = "generate_events" /\ num_events \in {1, 2}) => pc = "raised"

\* the transition table as the specification states it
table_allows(last_event_type, event_type) ==
    \/ last_event_type = "START_PLAYBACK" /\ event_type \in {"PAUSE", "SEEK"}
    \/ last_event_type = "PAUSE" /\ event_type = "RESUME"
    \/ last_event_type = "RESUME" /\ event_type \in {"PAUSE", "SEEK"}
    \/ last_event_type = "SEEK" /\ event_type = "PAUSE"

\* the event at index i is an END_PLAYBACK forced by the clamp
forced_end(i) == result[i].event_type = "END_PLAYBACK" /\ i \in clamped

\* C5, as claimed: every adjacent pair of a session is allowed by the
\* transition table, or its later event is an END_PLAYBACK forced by the clamp.
C5_TableOrForcedEnd ==
    SessionReturned =>
        \A i \in 1..(Len(result) - 1) :
            \/ table_allows(result[i].event_type, result[i + 1].event_type)
            \/ forced_end(i + 1)

\* C5, amended: every adjacent pair of a session is allowed by the transition
\* table, or its later event is an END_PLAYBACK forced by the clamp, or its
\* later event is the END_PLAYBACK appended after the loop, the last of the list.
C5_TableOrForcedOrClosingEnd ==
    SessionReturned =>
        \A i \in 1..(Len(result) - 1) :
            \/ table_allows(result[i].event_type, result[i + 1].event_type)
            \/ forced_end(i + 1)
            \/ /\ i + 1 = Len(result)
               /\ result[i + 1].event_type = "END_PLAYBACK"

\* a session with a pair of the table, an END_PLAYBACK forced by the clamp in
\* the middle of the list, and the closing END_PLAYBACK after it
C5_Witness ==
    /\ SessionReturned
    /\ Len(result) >= 4
    /\ table_allows(result[1].event_type, result[2].event_type)
    /\ \E i \in 2..(Len(result) - 1) : forced_end(i)

\* C6: in every returned session each timestamp is strictly greater than the
\* one before it.
C6_TimestampsIncrease ==
    SessionReturned =>
        \A i \in 1..(Len(result) - 1) :
            result[i + 1].timestamp > result[i].timestamp

\* a session of six events, each the least increment after the one before
C6_Witness ==
    /\ SessionReturned
    /\ Len(result) = MaxSessionEvents + 1
    /\ \A i \in 1..(Len(result) - 1) :
          result[i + 1].timestamp = result[i].timestamp + MinTimeStep

\* C7: every event returned by generate_events has its timestamp in
\* start_date..end_date, for a window with start_date < end_date.
C7_TimestampsInWindow ==
    (EventsReturned /\ start_date < end_date) =>
        \A i \in DOMAIN result :
            /\ start_date <= result[i].timestamp
            /\ result[i].timestamp <= end_date

\* C8: for a book with duration >= chapters >= 1, every event of a returned
\* session has 0 <= position <= duration and 1 <= chapter <= chapters.
C8_PositionAndChapterInRange ==
    (SessionReturned /\ arg_book.duration >= arg_book.chapters
                     /\ arg_book.chapters >= 1) =>
        \A i \in DOMAIN result :
            /\ 0 <= result[i].position
            /\ result[i].position <= arg_book.duration
            /\ 1 <= result[i].chapter
            /\ result[i].chapter <= arg_book.chapters

\* a session whose position was clamped to the duration of such a book, with
\* the last chapter reached
C8_Witness ==
    /\ SessionReturned
    /\ arg_book.duration >= arg_book.chapters
    /\ arg_book.chapters > 1
    /\ clamped # {}
    /\ \E i \in clamped :
          /\ result[i].position = arg_book.duration
          /\ result[i].chapter = arg_book.chapters

\* the five event types of the specification
five_event_types == {"START_PLAYBACK", "PAUSE", "RESUME", "SEEK", "END_PLAYBACK"}

\* C9: constructing a PlaybackEvent with an event_type outside the five values
\* raises ValueError and yields no event; with one of the five it yields the
\* event.
C9_InvalidTypeRejected ==
    op = "PlaybackEvent" =>
        IF arg_event_type \in five_event_types
        THEN /\ pc = "returned"
             /\ raised = ""
             /\ Len(result) = 1
             /\ result[1].event_type = arg_event_type
        ELSE /\ pc = "raised"
             /\ raised = "ValueError"
             /\ result = <<>>

\* the constructor was called with INVALID_TYPE and raised
C9_Witness ==
    /\ op = "PlaybackEvent"
    /\ arg_event_type = "INVALID_TYPE"
    /\ raised = "ValueError"

\* sorted(session_events, key=lambda x: x.timestamp): e goes behind the events
\* that are not later than it (the sort is stable)
RECURSIVE insert_by_timestamp(_, _)
insert_by_timestamp(sorted, e) ==
    IF sorted = <<>> \/ sorted[Len(sorted)].timestamp <= e.timestamp
    THEN Append(sorted, e)
    ELSE Append(insert_by_timestamp(SubSeq(sorted, 1, Len(sorted) - 1), e),
                sorted[Len(sorted)])

RECURSIVE sorted_by_timestamp(_)
sorted_by_timestamp(evs) ==
    IF evs = <<>>
    THEN <<>>
    ELSE insert_by_timestamp(sorted_by_timestamp(SubSeq(evs, 1, Len(evs) - 1)),
                             evs[Len(evs)])

\* user_sessions[user_id]: the events of the user, in the order of the list
events_of_user(evs, user_id) == SelectSeq(evs, LAMBDA e : e.user_id = user_id)

\* the pairs test_event_sequence_validity accepts
sequence_valid(current_type, next_type) ==
    /\ current_type = "START_PLAYBACK" => next_type \in {"PAUSE", "SEEK", "END_PLAYBACK"}
    /\ current_type = "PAUSE" => next_type \in {"RESUME", "END_PLAYBACK"}
    /\ current_type = "RESUME" => next_type \in {"PAUSE", "SEEK", "END_PLAYBACK"}
    /\ current_type = "SEEK" => next_type \in {"PAUSE", "END_PLAYBACK"}

\* C10: in the events returned by generate_events, grouped by user and sorted
\* by timestamp, every adjacent pair is one the test accepts.
C10_SequenceValidPerUser ==
    EventsReturned =>
        \A user_id \in user_ids :
            LET sorted_events == sorted_by_timestamp(events_of_user(result, user_id))
            IN  \A i \in 1..(Len(sorted_events) - 1) :
                    sequence_valid(sorted_events[i].event_type,
                                   sorted_events[i + 1].event_type)

\* the calls of the client whose outcome was the throttling error
is_throttled(call) ==
    is_client_error(call.response) /\ call.response.Error = Throttled

C12_OneResponsePerEvent ==
    (op = "send_events_batch" /\ pc = "returned")
    => /\ result.type = "list"
       /\ Len(result.value) = Len(arg_events)
       /\ \A j \in 1..Len(result.value) :
             {"ShardId", "SequenceNumber"} \subseteq DOMAIN result.value[j]

\* C13: send_events returns True if and only if every input event was
\* accepted by Kinesis in some put_records call.
C13_TrueIffAllAccepted ==
    (op = "send_events" /\ pc = "returned")
    => /\ result.type = "bool"
       /\ result.value <=> (\A j \in 1..Len(arg_events) :
                               arg_events[j] \in accepted_events)

\* C14: send_event with an empty user_id, and send_events_batch with more
\* events than batch_size or with an event whose user_id is empty, raise
\* ValueError and no call of the client is made.
C14_InvalidInputRejected ==
    /\ (op = "send_event" /\ arg_events[1].user_id = "")
         => pc = "raised" /\ raised = "ValueError" /\ put_calls = <<>>
    /\ (/\ op = "send_events_batch"
        /\ \/ Len(arg_events) > batch_size
           \/ \E j \in 1..Len(arg_events) : arg_events[j].user_id = "")
         => pc = "raised" /\ raised = "ValueError" /\ put_calls = <<>>

\* a list longer than batch_size, of events with user ids, was rejected
C14_Witness ==
    /\ op = "send_events_batch"
    /\ Len(arg_events) > batch_size
    /\ \A j \in 1..Len(arg_events) : arg_events[j].user_id # ""
    /\ pc = "raised"
    /\ raised = "ValueError"

\* the indexes of the END_PLAYBACK events of the returned list
end_playback_indexes == {i \in DOMAIN result : result[i].event_type = "END_PLAYBACK"}

\* C15: a returned session holds exactly one END_PLAYBACK event; no event
\* follows an END_PLAYBACK forced by the clamp.
C15_OneEndPlayback ==
    SessionReturned => Cardinality(end_playback_indexes) = 1

\* C16: an event whose step took the position above book.duration has
\* position book.duration and type END_PLAYBACK, and no PAUSE, RESUME or SEEK
\* follows it in the session.
C16_ClampEndsSession ==
    SessionReturned =>
        \A i \in clamped :
            /\ result[i].position = arg_book.duration
            /\ result[i].event_type = "END_PLAYBACK"
            /\ \A j \in (i + 1)..Len(result) :
                  result[j].event_type \notin {"PAUSE", "RESUME", "SEEK"}

\* the clamp ended a session before the planned number of events was produced
C16_Witness ==
    /\ SessionReturned
    /\ clamped # {}
    /\ planned = MaxSessionEvents
    /\ Len(result) < planned + 1

\* C17: for every book with duration >= 1 and chapters >= 1 the session is
\* computed without an arithmetic failure and every chapter lies in
\* 1..book.chapters.
C17_ChapterTotal ==
    (op = "generate_user_session" /\ arg_book.duration >= 1
                                  /\ arg_book.chapters >= 1) =>
        /\ pc = "returned"
        /\ \A i \in DOMAIN result :
              /\ 1 <= result[i].chapter
              /\ result[i].chapter <= arg_book.chapters

\* evs is a concatenation of lists that each start with START_PLAYBACK, end
\* with END_PLAYBACK and hold no other START_PLAYBACK
whole_sessions(evs) ==
    \/ evs = <<>>
    \/ /\ evs[1].event_type = "START_PLAYBACK"
       /\ evs[Len(evs)].event_type = "END_PLAYBACK"
       /\ \A i \in 1..(Len(evs) - 1) :
             evs[i + 1].event_type = "START_PLAYBACK" =>
                evs[i].event_type = "END_PLAYBACK"

\* C18: during generate_events(N) the accumulated list holds at most N events
\* and is a concatenation of complete sessions, and the truncation at the
\* return removes nothing.
C18_WholeSessionsOnly ==
    op = "generate_events" =>
        /\ Len(events) <= num_events
        /\ whole_sessions(events)
        /\ pc = "returned" => result = events

\* a session was appended whole and only sessions that do not fit are left
C18_Witness ==
    /\ op = "generate_events"
    /\ pc = "loop"
    /\ Len(events) = 3
    /\ num_events = 5
    /\ whole_sessions(events)

\* C19: every event produced by generate_user_session or generate_event has
\* chapter = min(book.chapters, 1 + position // (book.duration // book.chapters)).
C19_ChapterDerivedFromPosition ==
    (/\ op \in {"generate_user_session", "generate_event"}
     /\ pc = "returned"
     /\ arg_book.chapters >= 1
     /\ arg_book.duration >= arg_book.chapters) =>
        \A i \in DOMAIN result :
            LET derived == 1 + result[i].position
                                \div (arg_book.duration \div arg_book.chapters)
            IN  result[i].chapter =
                    IF derived < arg_book.chapters THEN derived ELSE arg_book.chapters

\* C20: users and books hold num_users and num_books entries, and no
\* operation of the generator changes them.
C20_PopulationsReadOnly ==
    [][/\ users' = users
       /\ books' = books
       /\ Len(users) = NumUsers
       /\ Len(books) = NumBooks]_vars

\* generate_events has returned a list and the populations are as constructed
C20_Witness ==
    /\ EventsReturned
    /\ Len(result) >= 3
    /\ Len(users) = NumUsers
    /\ Len(books) = NumBooks

\* the last call of the client made so far
last_call == put_calls[Len(put_calls)]

\* C21: when put_record fails with a ClientError other than the throttling
\* error, send_event raises that error at once: no further call and no sleep
\* follows; if it was the first call, it is the only call and no sleep was made.
C21_OtherErrorNotRetried ==
    (/\ op = "send_event"
     /\ put_calls # <<>>
     /\ is_client_error(last_call.response)
     /\ last_call.response.Error = "ResourceNotFoundException")
    => /\ pc = "raised"
       /\ raised = "ClientError"
       /\ Len(sleeps) = Len(put_calls) - 1
       /\ \A j \in 1..(Len(put_calls) - 1) : is_throttled(put_calls[j])

\* the stream was not found at the first call: one call, no sleep
C21_Witness ==
    /\ op = "send_event"
    /\ pc = "raised"
    /\ Len(put_calls) = 1
    /\ is_client_error(put_calls[1].response)
    /\ put_calls[1].response.Error = "ResourceNotFoundException"
    /\ sleeps = <<>>

\* C22: in send_events at most retry_attempts calls of put_records are made
\* for a batch, and after a response that reports failed records the next
\* attempt for the batch holds exactly the records that response marked with
\* an ErrorCode.
C22_OnlyFailedRetried ==
    [][(op = "send_events" /\ pc = "put")
       => /\ attempt < retry_attempts
          /\ (/\ pc' = "put"
              /\ batch_start' = batch_start
              /\ attempt' = attempt + 1
              /\ ~is_client_error(put_calls'[Len(put_calls')].response))
             => LET response == put_calls'[Len(put_calls')].response
                    marked == {j \in 1..Len(records) :
                                  "ErrorCode" \in DOMAIN response.Records[j]}
                IN /\ put_calls'[Len(put_calls')].request = records
                   /\ Len(records') = Cardinality(marked)
                   /\ \A j \in 1..Len(records) :
                         (j \in marked) <=> (records[j] \in Range(records'))]_vars

\* of two records sent, one failed and was sent again alone
C22_Witness ==
    /\ op = "send_events"
    /\ Len(put_calls) >= 2
    /\ Len(put_calls[1].request) = 2
    /\ ~is_client_error(put_calls[1].response)
    /\ put_calls[1].response.FailedRecordCount = 1
    /\ Len(put_calls[2].request) = 1

\* the calls of put_records in which the event was accepted
accepting_calls(event) ==
    {j \in 1..Len(put_calls) :
        /\ ~is_client_error(put_calls[j].response)
        /\ \E k \in 1..Len(put_calls[j].request) :
              /\ put_calls[j].request[k].Data = event
              /\ "ShardId" \in DOMAIN put_calls[j].response.Records[k]}

\* C25: in send_events_batch every event is accepted by Kinesis in at most one
\* call, and a call after a partial failure sends only records that failed in
\* the call before it.
C25_AcceptedAtMostOnce ==
    op = "send_events_batch"
    => /\ \A j \in 1..Len(arg_events) :
             Cardinality(accepting_calls(arg_events[j])) <= 1
       /\ \A j \in 2..Len(put_calls) :
             ~is_client_error(put_calls[j - 1].response)
             => \A k \in 1..Len(put_calls[j].request) :
                   put_calls[j].request[k] \in
                      {put_calls[j - 1].request[i] :
                          i \in error_indexes(put_calls[j - 1].response)}

\* C26: a call of send_events_batch ends with a list returned, or with
\* ValueError or ClientError raised.
C26_ThreeOutcomesOnly ==
    op = "send_events_batch"
    => /\ pc = "returned" => result.type = "list"
       /\ pc = "raised" => raised \in {"ValueError", "ClientError"}

\* C27: send_event calls put_record at most 3 times, and a call that returns
\* returns a dict with ShardId and SequenceNumber, never None.
C27_BoundedCallsNeverNone ==
    op = "send_event"
    => /\ Len(put_calls) <= 3
       /\ pc \in {"put", "returned", "raised"}
       /\ pc = "returned"
            => /\ result.type = "dict"
               /\ DOMAIN result.value = {"ShardId", "SequenceNumber"}

\* the third call of put_record was made and was throttled
C27_Witness ==
    /\ op = "send_event"
    /\ Len(put_calls) = 3
    /\ is_throttled(put_calls[3])
    /\ pc = "raised"

\* C28: a returned session has between 3 and 6 events, and n + 1 events when
\* no position was clamped, n being the drawn num_events.
C28_SessionLength ==
    SessionReturned
    => /\ Len(result) >= 3
       /\ Len(result) <= 6
       /\ clamped = {} => Len(result) = planned + 1

\* the longest session: five events drawn, no clamp
C28_Witness ==
    /\ SessionReturned
    /\ clamped = {}
    /\ planned = 5
    /\ Len(result) = 6

\* C29: in a returned session every RESUME directly follows a PAUSE, no PAUSE
\* is directly followed by a PAUSE or a SEEK, and START_PLAYBACK is the first
\* event only.
C29_PausedStateRespected ==
    SessionReturned
    => /\ \A i \in 1..Len(result) :
             result[i].event_type = "RESUME"
             => i > 1 /\ result[i - 1].event_type = "PAUSE"
       /\ \A i \in 1..(Len(result) - 1) :
             result[i].event_type = "PAUSE"
             => result[i + 1].event_type \notin {"PAUSE", "SEEK"}
       /\ \A i \in 2..Len(result) : result[i].event_type # "START_PLAYBACK"

\* a session that pauses, resumes and pauses again
C29_Witness ==
    /\ SessionReturned
    /\ Len(result) >= 5
    /\ result[2].event_type = "PAUSE"
    /\ result[3].event_type = "RESUME"
    /\ result[4].event_type = "PAUSE"

\* the items whose put_item call was done, in the order of the calls
written_items ==
    LET done == SelectSeq(put_item_calls, LAMBDA call : call.outcome = "ok")
    IN [j \in 1..Len(done) |-> done[j].Item]

\* the records of the input whose parsing raises ValueError
unparsed_records ==
    {j \in 1..Len(event_records) :
        parse_kinesis_record(event_records[j]).raised = "ValueError"}

\* C23: process_records handles every record once and goes on after a
\* ValueError of the parsing or a ClientError of the write: before each pass
\* the two counts add up to the number of records passed, one put_item call
\* was made for each record parsed, and on return processed + failed is the
\* number of input records, failed counting the records not parsed and the
\* writes refused.
C23_EveryRecordCounted ==
    op = "lambda_handler"
    => /\ pc = "record"
            => /\ stats.processed + stats.failed = record_index - 1
               /\ Len(put_item_calls)
                     = Cardinality((1..(record_index - 1)) \ unparsed_records)
       /\ pc = "returned"
            => /\ result.body.processed_count + result.body.failed_count
                     = Len(event_records)
               /\ result.body.processed_count = Len(written_items)
               /\ Len(put_item_calls)
                     = Len(event_records) - Cardinality(unparsed_records)
               /\ \A j \in 1..Len(put_item_calls) :
                     \A k \in 1..Len(put_item_calls) :
                         j < k => put_item_calls[j].Item.event_id
                                    < put_item_calls[k].Item.event_id

\* the first record was not parsed, the second was processed
C23_Witness ==
    /\ op = "lambda_handler"
    /\ pc = "returned"
    /\ Len(event_records) = 2
    /\ 1 \in unparsed_records
    /\ result.body.failed_count = 1
    /\ result.body.processed_count = 1

\* the calendar day the key of an event is made of
day_of(timestamp) ==
    IF timestamp.iso
    THEN <<timestamp.year, timestamp.month, timestamp.day>>
    ELSE <<utcnow.year, utcnow.month, utcnow.day>>

\* C24: when store_in_s3 has stored all events, it has called put_object once
\* for each calendar day among the events, and events of one day are in one
\* object.
C24_OneObjectPerDay ==
    (store_in_s3_calls # <<>> /\ store_in_s3_result = "True")
    => /\ Len(put_object_calls)
             = Cardinality({day_of(e.timestamp) : e \in Range(store_in_s3_calls[1])})
       /\ \A e1 \in Range(store_in_s3_calls[1]) :
             \A e2 \in Range(store_in_s3_calls[1]) :
                 day_of(e1.timestamp) = day_of(e2.timestamp)
                 => \E j \in 1..Len(put_object_calls) :
                       {e1, e2} \subseteq Range(put_object_calls[j].Body)

\* C30: the list handed to store_in_s3 by process_records is the list of the
\* items whose DynamoDB write was done, in input order, and lambda_handler
\* returns statusCode 200 with the counts of the writes done and of the other
\* records, whatever store_in_s3 returned.
C30_StoredAreWritten ==
    op = "lambda_handler"
    => /\ store_in_s3_calls \in {<<>>, <<written_items>>}
       /\ pc = "returned"
            => /\ (store_in_s3_calls = <<>>) <=> (written_items = <<>>)
               /\ \A j \in 1..Len(written_items) :
                     \A k \in 1..Len(written_items) :
                         j < k => written_items[j].event_id < written_items[k].event_id
               /\ result.statusCode = 200
               /\ result.body.processed_count = Len(written_items)
               /\ result.body.failed_count
                     = Len(event_records) - Len(written_items)

\* store_in_s3 failed after one write was done and one was refused
C30_Witness ==
    /\ op = "lambda_handler"
    /\ pc = "returned"
    /\ store_in_s3_result = "False"
    /\ Len(put_item_calls) = 2
    /\ Len(written_items) = 1
    /\ result.statusCode = 200

====
